---- MODULE Spec2Model ----
(***************************************************************************)
(* A model of tuicric/dump.py: the SysEx patch schema (sections of         *)
(* parameters), the decoder dump_sysex_patch_gv and the Graphviz renderer. *)
(*                                                                         *)
(* Python values are represented as follows.                               *)
(*   - str: a TLA+ string; characters are reached with Head/Tail/SubSeq.   *)
(*   - a display value (what format returns): [int |-> n] or [str |-> s],  *)
(*     or [float |-> <<num, den>>] for an exact rational.                  *)
(*   - an exception: [ok |-> FALSE, error |-> <kind>]; a normal return:    *)
(*     [ok |-> TRUE, value |-> v].                                         *)
(*   - None in a parameter's raw slot: the value None (ord() only yields   *)
(*     0..255, so it cannot be mistaken for a byte).                       *)
(* The module is read with Python 2 semantics for byte strings (indexing   *)
(* yields a one-character string, so ord() at dump.py:484 succeeds) and    *)
(* with true division (from __future__ import division, dump.py:5).        *)
(***************************************************************************)
EXTENDS Integers, Sequences, FiniteSets, TLC

VARIABLES
    schema,     \* the schema object being decoded into / rendered
    sysex,      \* argument of the last dump_sysex_patch_gv call
    reports,    \* per-section tables logged by the last call
    result,     \* outcome of the last call
    gv,         \* components of the last rendered graph
    before,     \* the raw slots of schema when the last decode was called
    param,      \* a parameter object under construction / formatting
    out         \* outcome of the last constructor or format call on param

vars == <<schema, sysex, reports, result, gv, before, param, out>>

None == -1

PyInt(n) == [int |-> n]
PyStr(s) == [str |-> s]
PyFloat(num, den) == [float |-> <<num, den>>]

Return(v) == [ok |-> TRUE, value |-> v]
Raise(kind) == [ok |-> FALSE, error |-> kind]

(***************************************************************************)
(* Arithmetic helpers: Python's int() truncates towards zero; '%.2f'       *)
(* rounds to the nearest hundredth (ties to even).                         *)
(***************************************************************************)
Abs(n) == IF n < 0 THEN -n ELSE n

TruncDiv(num, den) ==
    IF num >= 0 THEN num \div den ELSE -((-num) \div den)

RoundDiv(num, den) ==
    LET q == num \div den
        r == num % den
    IN  IF 2 * r < den THEN q
        ELSE IF 2 * r > den THEN q + 1
        ELSE IF q % 2 = 0 THEN q ELSE q + 1

(***************************************************************************)
(* str.lower() and re.sub(r'\W', '', s) on ASCII names.                    *)
(***************************************************************************)
UpperCase == "ABCDEFGHIJKLMNOPQRSTUVWXYZ"
LowerCase == "abcdefghijklmnopqrstuvwxyz"
Digits == "0123456789"

Chars(s) == {SubSeq(s, i, i) : i \in 1..Len(s)}

UpperChars == Chars(UpperCase)

ToLower ==
    [c \in UpperChars |->
        LET i == CHOOSE j \in 1..Len(UpperCase) : SubSeq(UpperCase, j, j) = c
        IN  SubSeq(LowerCase, i, i)]

lower_char(c) == IF c \in UpperChars THEN ToLower[c] ELSE c

\* the characters \w matches
WordChars == UpperChars \cup Chars(LowerCase) \cup Chars(Digits) \cup {"_"}

is_word_char(c) == c \in WordChars

RECURSIVE lower(_)
lower(s) == IF s = "" THEN "" ELSE lower_char(Head(s)) \o lower(Tail(s))

RECURSIVE strip_non_word(_)
strip_non_word(s) ==
    IF s = "" THEN ""
    ELSE IF is_word_char(Head(s)) THEN Head(s) \o strip_non_word(Tail(s))
    ELSE strip_non_word(Tail(s))

\* variant: the identifier keeps the name's capitals
make_id_keep_case(string) == strip_non_word(string)
make_id(string) == strip_non_word(lower(string))

(***************************************************************************)
(* The '%' string formatting operator for the conversions the module uses: *)
(* %s, %d, %+d, %.2f and the literal %%.                                   *)
(***************************************************************************)
PadTwo(n) == IF n < 10 THEN "0" \o ToString(n) ELSE ToString(n)

IsInt(v) == DOMAIN v = {"int"}
IsStr(v) == DOMAIN v = {"str"}
IsFloat(v) == DOMAIN v = {"float"}

\* int(v) for a number
ToInt(v) == IF IsInt(v) THEN v.int ELSE TruncDiv(v.float[1], v.float[2])

\* '%.2f' % v
FixedTwo(v) ==
    LET num == IF IsInt(v) THEN v.int ELSE v.float[1]
        den == IF IsInt(v) THEN 1 ELSE v.float[2]
        h == RoundDiv(100 * Abs(num), den)
    IN  (IF num < 0 /\ h > 0 THEN "-" ELSE "")
            \o ToString(h \div 100) \o "." \o PadTwo(h % 100)

\* str(v); a float is only rendered when it is a whole number
Str(v) ==
    CASE IsStr(v) -> v.str
      [] IsInt(v) -> ToString(v.int)
      [] IsFloat(v) /\ v.float[1] % v.float[2] = 0 ->
            ToString(v.float[1] \div v.float[2]) \o ".0"

SignedDec(v) ==
    LET n == ToInt(v) IN (IF n >= 0 THEN "+" ELSE "-") \o ToString(Abs(n))

StartsWith(s, prefix) ==
    Len(s) >= Len(prefix) /\ SubSeq(s, 1, Len(prefix)) = prefix

Drop(s, n) == SubSeq(s, n + 1, Len(s))

\* length of the conversion (or literal character) fmt begins with
DirectiveLen(fmt) ==
    IF StartsWith(fmt, "%.2f") THEN 4
    ELSE IF StartsWith(fmt, "%+d") THEN 3
    ELSE IF StartsWith(fmt, "%%") \/ StartsWith(fmt, "%s") \/ StartsWith(fmt, "%d") THEN 2
    ELSE 1

Convert(directive, v) ==
    CASE directive = "%%" -> "%"
      [] directive = "%s" -> Str(v)
      [] directive = "%d" -> ToString(ToInt(v))
      [] directive = "%+d" -> SignedDec(v)
      [] directive = "%.2f" -> FixedTwo(v)
      [] OTHER -> directive

RECURSIVE PercentFrom(_, _, _)
PercentFrom(fmt, v, n) ==
    Convert(SubSeq(fmt, 1, n), v)
        \o (IF n = Len(fmt) THEN ""
            ELSE PercentFrom(Drop(fmt, n), v, DirectiveLen(Drop(fmt, n))))

\* fmt % v
Percent(fmt, v) == IF fmt = "" THEN "" ELSE PercentFrom(fmt, v, DirectiveLen(fmt))

(***************************************************************************)
(* SysexInfoParam and its subclasses.  A parameter object is a record; the *)
(* fields a subclass does not have hold neutral values.                    *)
(***************************************************************************)
\* the two assertions of SysexInfoParam.__init__
SysexInfoParam_asserts(range_min, range_max, default) ==
    /\ range_min <= range_max
    /\ range_min <= default /\ default <= range_max

SysexInfoParam(offset, name, range_min, range_max, default) ==
    [cls |-> "SysexInfoParam", offset |-> offset, name |-> name,
     range_min |-> range_min, range_max |-> range_max, default |-> default,
     raw |-> None,
     choices |-> <<>>,
     map_min |-> PyInt(0), map_max |-> PyInt(0), fmt_str |-> ""]

\* SysexInfoParam.format: the range assertion, then the raw value itself
SysexInfoParam_format(self, raw) ==
    IF self.range_min <= raw /\ raw <= self.range_max
    THEN Return(PyInt(raw))
    ELSE Raise("AssertionError: raw should be within range")

\* list indexing with Python's negative-index wrap-around
ListIndex(list, i) ==
    IF 0 <= i /\ i < Len(list) THEN Return(list[i + 1])
    ELSE IF -Len(list) <= i /\ i < 0 THEN Return(list[Len(list) + i + 1])
    ELSE Raise("IndexError")

\* self.choices[raw], after the assertion raw < len(self.choices)
ChoiceLabel(self, raw) ==
    IF ~(raw < Len(self.choices))
    THEN Raise("AssertionError: raw should be in index of choices")
    ELSE IF 0 <= raw \/ -Len(self.choices) <= raw
    THEN Return(PyStr(ListIndex(self.choices, raw).value))
    ELSE ListIndex(self.choices, raw)

SysexInfoParamChoice_format(self, raw) ==
    IF ~SysexInfoParam_format(self, raw).ok THEN SysexInfoParam_format(self, raw)
    ELSE ChoiceLabel(self, raw)

NumVal(v) == IF IsInt(v) THEN v.int ELSE v.float[1] \div v.float[2]

\* mapped_type(num / den) substituted into fmt_str
MapString(self, num, den) ==
    Percent(self.fmt_str,
            IF IsInt(self.map_min) THEN PyInt(TruncDiv(num, den)) ELSE PyFloat(num, den))

\* variant: the raw range is taken to be as wide as the mapped range, so the
\* value is shifted but not scaled
Mapped_unscaled(self, raw, den) ==
    IF den = 0 THEN Raise("ZeroDivisionError")
    ELSE Return(PyStr(MapString(self, raw - self.range_min + NumVal(self.map_min), 1)))

\* (raw - range_min) * (map_max - map_min) / (range_max - range_min) + map_min
Mapped(self, raw, den) ==
    IF den = 0 THEN Raise("ZeroDivisionError")
    ELSE Return(PyStr(MapString(self,
            (raw - self.range_min) * (NumVal(self.map_max) - NumVal(self.map_min))
                + NumVal(self.map_min) * den,
            den)))

SysexInfoParamMap_format(self, raw) ==
    IF ~SysexInfoParam_format(self, raw).ok THEN SysexInfoParam_format(self, raw)
    ELSE Mapped(self, raw, self.range_max - self.range_min)

\* dynamic dispatch of param.format(raw)
format(self, raw) ==
    CASE self.cls = "SysexInfoParam" -> SysexInfoParam_format(self, raw)
      [] self.cls = "SysexInfoParamChoice" -> SysexInfoParamChoice_format(self, raw)
      [] self.cls = "SysexInfoParamMap" -> SysexInfoParamMap_format(self, raw)

\* the value property
value(self) == format(self, IF self.raw # None THEN self.raw ELSE self.default)

(***************************************************************************)
(* Argument binding of a call f(offset, name, *args, **kwargs) to          *)
(* SysexInfoParam.__init__(self, offset, name='', range_min=0,             *)
(* range_max=127, default=0).  args is a sequence, kwargs a function from  *)
(* keyword names to values.                                                *)
(***************************************************************************)
ParamKeywords == <<"range_min", "range_max", "default">>
ParamDefaults == <<0, 127, 0>>

kwargs_get(kwargs, key, dflt) ==
    IF key \in DOMAIN kwargs THEN kwargs[key] ELSE dflt

kwargs_set(kwargs, key, v) ==
    [k \in (DOMAIN kwargs) \cup {key} |-> IF k = key THEN v ELSE kwargs[k]]

NoKwargs == [k \in {} |-> 0]

BindOk(args, kwargs) ==
    /\ Len(args) <= Len(ParamKeywords)
    /\ \A k \in DOMAIN kwargs : \E i \in 1..Len(ParamKeywords) : ParamKeywords[i] = k
    /\ \A i \in 1..Len(args) : ParamKeywords[i] \notin DOMAIN kwargs

Bound(args, kwargs, i) ==
    IF i <= Len(args) THEN args[i]
    ELSE kwargs_get(kwargs, ParamKeywords[i], ParamDefaults[i])

\* SysexInfoParam.__init__ with its three optional arguments bound
SysexInfoParam_new(offset, name, range_min, range_max, default) ==
    IF ~SysexInfoParam_asserts(range_min, range_max, default)
    THEN Raise("AssertionError: sanity check")
    ELSE Return(SysexInfoParam(offset, name, range_min, range_max, default))

\* SysexInfoParam.__init__ called with *args, **kwargs
SysexInfoParam_init(offset, name, args, kwargs) ==
    IF ~BindOk(args, kwargs) THEN Raise("TypeError")
    ELSE SysexInfoParam_new(offset, name, Bound(args, kwargs, 1),
                            Bound(args, kwargs, 2), Bound(args, kwargs, 3))

\* the subclass fields set on the object the base constructor returned
AsChoice(base, choices) ==
    IF ~base.ok THEN base
    ELSE Return([base.value EXCEPT !.cls = "SysexInfoParamChoice", !.choices = choices])

SysexInfoParamChoice(offset, name, choices, args, kwargs) ==
    IF ~(Len(choices) >= 1) THEN Raise("AssertionError: Should be at least one choice")
    ELSE AsChoice(SysexInfoParam_init(offset, name, args,
                        kwargs_set(kwargs, "range_max",
                            kwargs_get(kwargs, "range_min", 0) + Len(choices) - 1)),
                  choices)

OscWaveChoices ==
    <<"sine", "triangle", "sawtooth", "saw 9:1 PW", "saw 8:2 PW",
      "saw 7:3 PW", "saw 6:4 PW", "saw 5:5 PW", "saw 4:6 PW",
      "saw 3:7 PW", "saw 2:8 PW", "saw 1:9 PW", "pulse width",
      "square", "sine table", "analogue pulse", "analogue sync",
      "triange-saw blend", "digital nasty 1", "digital nasty 2",
      "digital saw-square", "digital vocal 1", "digital vocal 2",
      "digital vocal 3", "digital vocal 4", "digital vocal 5",
      "digital vocal 6", "random collection 1",
      "random collection 2", "random collection 3">>

SysexInfoParamChoiceOscWave(offset, name, args, kwargs) ==
    SysexInfoParamChoice(offset, name, OscWaveChoices, args, kwargs)

\* isinstance(map_min, type(map_max)) for int and float endpoints
SameNumericType(a, b) == DOMAIN a = DOMAIN b

AsMap(base, map_min, map_max, fmt_str) ==
    IF ~base.ok THEN base
    ELSE Return([base.value EXCEPT !.cls = "SysexInfoParamMap", !.map_min = map_min,
                                   !.map_max = map_max, !.fmt_str = fmt_str])

SysexInfoParamMap(offset, name, map_min, map_max, fmt_str, args, kwargs) ==
    IF ~SameNumericType(map_min, map_max)
    THEN Raise("AssertionError: types of map_min and map_max should be the same")
    ELSE AsMap(SysexInfoParam_init(offset, name, args, kwargs), map_min, map_max, fmt_str)

\* SysexInfoParamMap with the defaults map_min=0, map_max=100, fmt_str='%s%%'
DefaultMap(offset, name, kwargs) ==
    SysexInfoParamMap(offset, name, PyInt(0), PyInt(100), "%s%%", <<>>, kwargs)

(***************************************************************************)
(* Sections: a list of parameters with a name and a class.                 *)
(***************************************************************************)
SysexInfoSection(name, params) ==
    [cls |-> "SysexInfoSection", name |-> name, params |-> params]

SysexInfoSectionOscillator(name, offset) ==
    [cls |-> "SysexInfoSectionOscillator", name |-> name, params |-> <<
        SysexInfoParamChoiceOscWave(offset + 0, name \o " Wave",
            <<>>, [default |-> 2]).value,
        DefaultMap(offset + 1, name \o " Wave Interpolate", NoKwargs).value,
        SysexInfoParamMap(offset + 2, name \o " Pulse Withdraw Index",
            PyInt(-64), PyInt(64), "%s", <<>>, [default |-> 127]).value,
        DefaultMap(offset + 3, name \o " Virtual Sync Depth", NoKwargs).value,
        DefaultMap(offset + 3, name \o " Density", NoKwargs).value,
        DefaultMap(offset + 3, name \o " Density Detune", NoKwargs).value,
        SysexInfoParamMap(offset + 2, name \o " Semitones",
            PyInt(-64), PyInt(64), "%+d semitones", <<>>, [default |-> 64]).value,
        SysexInfoParamMap(offset + 2, name \o " Cents",
            PyInt(-100), PyInt(100), "%+d cents", <<>>, [default |-> 64]).value
    >>]

SysexInfoSectionMixer(name, offset) ==
    [cls |-> "SysexInfoSectionMixer", name |-> name, params |-> <<
        DefaultMap(offset + 0, "Oscillator 1 Level", [default |-> 127]).value,
        DefaultMap(offset + 1, "Oscillator 2 Level", [default |-> 0]).value,
        DefaultMap(offset + 2, "Ring Mod Level", NoKwargs).value,
        DefaultMap(offset + 3, "Noise Level", NoKwargs).value,
        SysexInfoParamMap(offset + 4, "Pre FX Level",
            PyFloat(-12, 1), PyFloat(18, 1), "%.2fdB", <<>>, [default |-> 64]).value,
        SysexInfoParamMap(offset + 5, "Post FX Level",
            PyFloat(-12, 1), PyFloat(18, 1), "%.2fdB", <<>>, [default |-> 64]).value
    >>]

\* params is the caller's list; the four envelope stages are appended to it
SysexInfoSectionEnvelope(name, offset, params) ==
    [cls |-> "SysexInfoSectionEnvelope", name |-> name, params |-> params \o <<
        DefaultMap(offset + 1, name \o " Attack", NoKwargs).value,
        DefaultMap(offset + 2, name \o " Decay", NoKwargs).value,
        DefaultMap(offset + 3, name \o " Sustain", NoKwargs).value,
        DefaultMap(offset + 4, name \o " Release", NoKwargs).value
    >>]

SysexInfo(sections, name) == [name |-> name, sections |-> sections]

PATCH_LEN == 350
\* binascii.a2b_hex('F0002029')
PATCH_HEADER == <<240, 0, 32, 41>>

PATCH_INFO ==
    SysexInfo(<<
        SysexInfoSection("Voice", <<
            SysexInfoParamChoice(41, "Polyphony Mode", <<"Mono", "MonoAG", "Poly">>,
                <<>>, [default |-> 2]).value,
            DefaultMap(42, "Portamento Rate", NoKwargs).value,
            SysexInfoParamMap(43, "Pre-Glide", PyInt(-12), PyInt(12), "%+d semitones",
                <<>>, [range_min |-> 52, range_max |-> 76, default |-> 64]).value,
            SysexInfoParamMap(44, "Keyboard Octave", PyInt(-6), PyInt(5), "%+d octaves",
                <<>>, [range_min |-> 58, range_max |-> 69, default |-> 64]).value
        >>),
        SysexInfoSectionOscillator("Oscillator 1", 45),
        SysexInfoSectionOscillator("Oscillator 2", 54),
        SysexInfoSectionMixer("Mixer", 63),
        SysexInfoSectionEnvelope("Envelope 1", 78, <<
            SysexInfoParamMap(78, "Envelope 1 Velocity", PyInt(-64), PyInt(64), "%s%%",
                <<>>, [default |-> 64]).value >>),
        SysexInfoSectionEnvelope("Envelope 2", 83, <<
            SysexInfoParamMap(83, "Envelope 2 Velocity", PyInt(-64), PyInt(64), "%s%%",
                <<>>, [default |-> 64]).value >>),
        SysexInfoSectionEnvelope("Envelope 3", 88, <<
            DefaultMap(88, "Envelope 3 Delay", [default |-> 0]).value >>)
    >>, "")

(***************************************************************************)
(* Graphviz rendering.  A statement of the output is a record: a node      *)
(* statement (id, the label attribute without its quotes, shape, style, and*)
(* the terminator the code appends), an edge statement, or a subgraph with *)
(* the statements of its body.                                             *)
(***************************************************************************)
\* gv_connection(from_id, to_id, edge_type='signal')
gv_connection(from_id, to_id, edge_type) ==
    [stmt |-> "edge", from |-> from_id, to |-> to_id,
     style |-> IF edge_type = "signal" THEN "bold"
               ELSE IF edge_type = "data" THEN "dashed" ELSE "",
     color |-> IF edge_type = "signal" THEN "red"
               ELSE IF edge_type = "data" THEN "blue" ELSE "",
     end |-> ";"]

\* gv_node(node_id, node_attrs={'label': label}, node_type)
gv_node(node_id, label, node_type) ==
    [stmt |-> "node", id |-> node_id, label |-> label,
     shape |-> IF node_type \in {"handle", "param"} THEN "record" ELSE "",
     style |-> IF node_type = "handle" THEN "bold" ELSE "",
     end |-> ""]

\* the label property; value is the parameter's (successful) display value
label(self, val) ==
    "{<mod>m|<in>i}|{" \o self.name \o "|" \o Str(val) \o "}|<out>o"

\* the node statement of a parameter whose value property returned v
ParamNode(self, v) ==
    IF ~v.ok THEN v
    ELSE Return([stmt |-> "node", id |-> make_id(self.name),
                 label |-> label(self, v.value),
                 shape |-> "record", style |-> "", end |-> ";"])

\* SysexInfoParam.to_gv, with the ';' that gv_components appends
SysexInfoParam_to_gv(self) == ParamNode(self, value(self))

Section_gv_id(self) == "cluster_" \o make_id(self.name)

\* index of the first call outcome that is an exception, 0 if none
FirstFailing(outcomes) ==
    IF \E i \in 1..Len(outcomes) : ~outcomes[i].ok
    THEN CHOOSE i \in 1..Len(outcomes) :
            /\ ~outcomes[i].ok
            /\ \A j \in 1..(i - 1) : outcomes[j].ok
    ELSE 0

\* the values of a sequence of call outcomes, or the first exception among them
Collect(outcomes) ==
    IF FirstFailing(outcomes) # 0 THEN outcomes[FirstFailing(outcomes)]
    ELSE Return([i \in 1..Len(outcomes) |-> outcomes[i].value])

\* response followed by more, unless response is an exception
Extend(response, more) ==
    IF ~response.ok THEN response ELSE Return(response.value \o more)

\* more followed by response, unless response is an exception
Prepend(more, response) ==
    IF ~response.ok THEN response ELSE Return(more \o response.value)

\* SysexInfoSection.gv_components
SysexInfoSection_gv_components(self) ==
    Prepend(<<gv_node("handle_" \o make_id(self.name),
                      "<in>|" \o self.name \o "|<out>", "handle")>>,
            Collect([i \in 1..Len(self.params) |-> SysexInfoParam_to_gv(self.params[i])]))

MixerEdges ==
    <<gv_connection("oscillator1level:out",
                    "{ringmodlevel:in:w, prefxlevel:in:w}", "signal"),
      gv_connection("oscillator2level:out",
                    "{ringmodlevel:in:w, prefxlevel:in:w}", "signal"),
      gv_connection("ringmodlevel:out:e", "prefxlevel:in:w", "signal"),
      gv_connection("noiselevel:out:e", "prefxlevel:in:w", "signal")>>

SysexInfoSectionMixer_gv_components(self) ==
    Extend(SysexInfoSection_gv_components(self), MixerEdges)

\* two bare identifiers, no parameter is visited
SysexInfoSectionEnvelope_gv_components(self) ==
    Return(<<gv_node("handle_oscillator1_" \o Section_gv_id(self), "", ""),
             gv_node("handle_oscillator1_" \o Section_gv_id(self), "", "")>>)

gv_components(self) ==
    CASE self.cls = "SysexInfoSectionMixer" -> SysexInfoSectionMixer_gv_components(self)
      [] self.cls = "SysexInfoSectionEnvelope" -> SysexInfoSectionEnvelope_gv_components(self)
      [] OTHER -> SysexInfoSection_gv_components(self)

\* the subgraph statement around a section's components
Subgraph(self, body) ==
    IF ~body.ok THEN body
    ELSE Return([stmt |-> "subgraph", id |-> Section_gv_id(self), body |-> body.value])

\* SysexInfoSection.to_gv
Section_to_gv(self) == Subgraph(self, gv_components(self))

TopLevelEdges ==
    <<gv_connection("handle_oscillator1:out", "oscillator1level:in", "signal"),
      gv_connection("handle_oscillator2:out", "oscillator2level:in", "signal")>>

\* SysexInfo.gv_components / to_gv: the components inside "digraph { ... }"
SysexInfo_to_gv(self) ==
    Extend(Collect([s \in 1..Len(self.sections) |-> Section_to_gv(self.sections[s])]),
           TopLevelEdges)

(***************************************************************************)
(* The decoder.  A byte string is a sequence of numbers 0..255; the byte   *)
(* at Python index k is sysex[k + 1].                                      *)
(***************************************************************************)
LoopState(ok, error, items, logged) ==
    [ok |-> ok, error |-> error, items |-> items, logged |-> logged]

\* the inner loop of dump_sysex_patch_gv over one section, from parameter i on:
\* param.raw is assigned before param.value is computed
RECURSIVE DecodeParams(_, _, _, _)
\* the body of the inner loop for parameter i, which now holds raw
DecodeParam(params, buf, i, group_table) ==
    IF ~value(params[i]).ok
    THEN LoopState(FALSE, value(params[i]).error, params, group_table)
    ELSE DecodeParams(params, buf, i + 1,
            Append(group_table,
                   <<"", params[i].name, params[i].raw, value(params[i]).value>>))

\* variant: a raw slot that is already populated is not written again
DecodeParams_write_once(params, buf, i, group_table) ==
    IF i > Len(params) THEN LoopState(TRUE, "", params, group_table)
    ELSE IF params[i].offset >= Len(buf)
    THEN LoopState(FALSE, "IndexError", params, group_table)
    ELSE DecodeParam([params EXCEPT ![i].raw =
                            IF @ = None THEN buf[params[i].offset + 1] ELSE @],
                     buf, i, group_table)

DecodeParams(params, buf, i, group_table) ==
    IF i > Len(params) THEN LoopState(TRUE, "", params, group_table)
    ELSE IF params[i].offset >= Len(buf)
    THEN LoopState(FALSE, "IndexError", params, group_table)
    ELSE DecodeParam([params EXCEPT ![i].raw = buf[params[i].offset + 1]],
                     buf, i, group_table)

\* the outer loop, from section s on: a section's table is logged once all
\* of its parameters have been read
RECURSIVE DecodeSections(_, _, _, _)
\* the rest of the outer loop once the inner loop over section s ended as r
DecodeSection(sections, buf, s, logged, r) ==
    IF ~r.ok
    THEN LoopState(FALSE, r.error, [sections EXCEPT ![s].params = r.items], logged)
    ELSE DecodeSections([sections EXCEPT ![s].params = r.items], buf, s + 1,
            Append(logged, [section |-> sections[s].name, table |-> r.logged]))

DecodeSections(sections, buf, s, logged) ==
    IF s > Len(sections) THEN LoopState(TRUE, "", sections, logged)
    ELSE DecodeSection(sections, buf, s, logged,
                       DecodeParams(sections[s].params, buf, 1, <<>>))

HeaderError == "AssertionError: sysex should start with valid header"
LengthError == "AssertionError: Sysex should be exactly 350 characters long"

Failed(op, error) == [op |-> op, ok |-> FALSE, error |-> error]
Succeeded(op) == [op |-> op, ok |-> TRUE, error |-> ""]

\* the return value of a call that got as far as rendering: PATCH_INFO.to_gv()
Rendered(op, g) ==
    /\ result' = IF g.ok THEN Succeeded(op) ELSE Failed(op, g.error)
    /\ gv' = IF g.ok THEN g.value ELSE <<>>

\* the state after the decoding loops of dump_sysex_patch_gv ended as d
Decoded(d) ==
    /\ schema' = [schema EXCEPT !.sections = d.items]
    /\ reports' = d.logged
    /\ IF ~d.ok
       THEN result' = Failed("dump", d.error) /\ gv' = <<>>
       ELSE Rendered("dump", SysexInfo_to_gv([schema EXCEPT !.sections = d.items]))

\* the raw slot of every parameter, section by section
RawSlots(self) ==
    [s \in 1..Len(self.sections) |->
        [i \in 1..Len(self.sections[s].params) |-> self.sections[s].params[i].raw]]

\* variant: the length is checked before the header
dump_length_first(buf) ==
    /\ sysex' = buf
    /\ before' = RawSlots(schema)
    /\ UNCHANGED <<param, out>>
    /\ IF Len(buf) # PATCH_LEN
       THEN /\ result' = Failed("dump", LengthError)
            /\ reports' = <<>>
            /\ gv' = <<>>
            /\ UNCHANGED schema
       ELSE IF ~StartsWith(buf, PATCH_HEADER)
       THEN /\ result' = Failed("dump", HeaderError)
            /\ reports' = <<>>
            /\ gv' = <<>>
            /\ UNCHANGED schema
       ELSE Decoded(DecodeSections(schema.sections, buf, 1, <<>>))

\* variant: the length is not checked, the loops run on whatever bytes are there
dump_no_length_check(buf) ==
    /\ sysex' = buf
    /\ before' = RawSlots(schema)
    /\ UNCHANGED <<param, out>>
    /\ IF ~StartsWith(buf, PATCH_HEADER)
       THEN /\ result' = Failed("dump", HeaderError)
            /\ reports' = <<>>
            /\ gv' = <<>>
            /\ UNCHANGED schema
       ELSE Decoded(DecodeSections(schema.sections, buf, 1, <<>>))

\* dump_sysex_patch_gv(buf), on the module-level PATCH_INFO held in schema
dump_sysex_patch_gv(buf) ==
    /\ sysex' = buf
    /\ before' = RawSlots(schema)
    /\ UNCHANGED <<param, out>>
    /\ IF ~StartsWith(buf, PATCH_HEADER)
       THEN /\ result' = Failed("dump", HeaderError)
            /\ reports' = <<>>
            /\ gv' = <<>>
            /\ UNCHANGED schema
       ELSE IF Len(buf) # PATCH_LEN
       THEN /\ result' = Failed("dump", LengthError)
            /\ reports' = <<>>
            /\ gv' = <<>>
            /\ UNCHANGED schema
       ELSE Decoded(DecodeSections(schema.sections, buf, 1, <<>>))

(***************************************************************************)
(* The byte strings the decoder is called with: a header, a length, one of *)
(* a few fillings of the body, and one byte of the body set to a chosen    *)
(* value.                                                                  *)
(***************************************************************************)
LenSlack == 1

BadHeaders == {<<241, 0, 32, 41>>}

Lengths == {Len(PATCH_HEADER) - 1}
                \cup ((PATCH_LEN - LenSlack)..(PATCH_LEN + LenSlack))

\* offsets of the three choice parameters of PATCH_INFO
ChoiceOffsets == {41, 45, 54}

\* <<offset, byte>>: the last one is the F7 that ends a SysEx message
EndOfSysex == <<349, 247>>
Overrides == {<<41, 5>>, <<42, 50>>, <<45, 30>>, <<67, 127>>, EndOfSysex}

\* a body every parameter of PATCH_INFO accepts, but for the byte at ov[1]
Buffer(h, len, ov) ==
    [i \in 1..len |->
        IF i <= Len(h) THEN h[i]
        ELSE IF i - 1 = ov[1] THEN ov[2]
        ELSE IF (i - 1) \in ChoiceOffsets THEN 2
        ELSE 64]

\* right header, right length: the body decides the outcome
FullBuffers == {Buffer(PATCH_HEADER, PATCH_LEN, ov) : ov \in Overrides}

\* right header, wrong length, with an out-of-range byte
WrongLengthBuffers ==
    {Buffer(PATCH_HEADER, len, <<41, 5>>) : len \in Lengths \ {PATCH_LEN}}

\* wrong header, any length
WrongHeaderBuffers ==
    {Buffer(h, len, <<41, 5>>) : h \in BadHeaders, len \in Lengths}

Buffers == FullBuffers \cup WrongLengthBuffers \cup WrongHeaderBuffers

NoCall == [op |-> "none", ok |-> TRUE, error |-> ""]
NoParam == [cls |-> "None"]

Init ==
    /\ schema = PATCH_INFO
    /\ sysex = <<>>
    /\ reports = <<>>
    /\ result = NoCall
    /\ gv = <<>>
    /\ before = <<>>
    /\ param = NoParam
    /\ out = [op |-> "none"]

\* PATCH_INFO.to_gv() called on its own
to_gv ==
    /\ Rendered("to_gv", SysexInfo_to_gv(schema))
    /\ reports' = <<>>
    /\ UNCHANGED <<schema, sysex, before, param, out>>

Decode == \E buf \in Buffers : dump_sysex_patch_gv(buf)

Next == Decode \/ to_gv

Spec == Init /\ [][Next]_vars

(***************************************************************************)
(* Parameters on their own: a constructor call with arguments from small   *)
(* sets, then format calls on the object it returned.                      *)
(***************************************************************************)
MaxRange == 2
MaxChoices == 3

RangeValues == (-1)..MaxRange
RawInputs == (-2)..(MaxRange + 1)

Labels == <<"Mono", "MonoAG", "Poly", "Poly2", "Poly3">>

\* every way of passing some of range_min, range_max, default by keyword
KeywordArgs ==
    UNION {[ks -> RangeValues] :
            ks \in SUBSET {ParamKeywords[i] : i \in 1..Len(ParamKeywords)}}

\* no positional argument, or range_min passed positionally
PositionalArgs == {<<>>} \cup {<<r>> : r \in RangeValues}

MapEndpoints == {PyInt(-2), PyInt(0), PyInt(3), PyFloat(1, 1)}
FormatStrings == {"%s%%", "%+d semitones"}

\* the outcome of a constructor call: the object exists only if it returned
Constructed(r) ==
    /\ param' = IF r.ok THEN r.value ELSE NoParam
    /\ out' = [op |-> "new", ok |-> r.ok, error |-> IF r.ok THEN "" ELSE r.error]
    /\ UNCHANGED <<schema, sysex, reports, result, gv, before>>

\* one object is constructed per run
NewChoice ==
    /\ param = NoParam
    /\ \E k \in 1..MaxChoices, args \in PositionalArgs, kwargs \in KeywordArgs :
        Constructed(SysexInfoParamChoice(0, "Choice", SubSeq(Labels, 1, k), args, kwargs))

NewMap ==
    /\ param = NoParam
    /\ \E map_min \in MapEndpoints, map_max \in MapEndpoints, fmt_str \in FormatStrings,
       kwargs \in KeywordArgs :
        Constructed(SysexInfoParamMap(0, "Map", map_min, map_max, fmt_str, <<>>, kwargs))

FormatCall ==
    /\ param # NoParam
    /\ \E raw \in RawInputs :
        out' = [op |-> "format", raw |-> raw, res |-> format(param, raw)]
    /\ UNCHANGED <<schema, sysex, reports, result, gv, before, param>>

\* no schema is involved: no object constructed yet, no call made
InitParam ==
    /\ schema = SysexInfo(<<>>, "")
    /\ sysex = <<>>
    /\ reports = <<>>
    /\ result = NoCall
    /\ gv = <<>>
    /\ before = <<>>
    /\ param = NoParam
    /\ out = [op |-> "none"]

NextParam == NewChoice \/ NewMap \/ FormatCall

SpecParam == InitParam /\ [][NextParam]_vars

(***************************************************************************)
(* The renderer on schemas other than PATCH_INFO: a few sections of every  *)
(* kind, with parameter names that differ only in punctuation.             *)
(***************************************************************************)
MaxSections == 2
MaxParams == 2

ParamNames == {"Pre-Glide", "Pre Glide", "Rate"}

GenericParams ==
    UNION {[1..n -> {DefaultMap(42, name, NoKwargs).value : name \in ParamNames}] :
            n \in 1..MaxParams}

SectionChoices ==
    {SysexInfoSection("Voice", params) : params \in GenericParams}
        \cup {SysexInfoSectionOscillator("Oscillator 1", 45),
              SysexInfoSectionMixer("Mixer", 63),
              SysexInfoSectionEnvelope("Envelope 1", 78, <<>>)}

SmallSchemas ==
    {SysexInfo(sections, "") :
        sections \in UNION {[1..n -> SectionChoices] : n \in 1..MaxSections}}

InitSchema ==
    /\ schema \in SmallSchemas
    /\ sysex = <<>>
    /\ reports = <<>>
    /\ result = NoCall
    /\ gv = <<>>
    /\ before = <<>>
    /\ param = NoParam
    /\ out = [op |-> "none"]

NextSchema == to_gv

SpecSchema == InitSchema /\ [][NextSchema]_vars

(***************************************************************************)
(* Reading the rendered graph: the statements of the output, the ports of  *)
(* a record label, the name shown in a parameter's label and the endpoints *)
(* of an edge.                                                             *)
(***************************************************************************)
\* the text before the first occurrence of character c (all of s if none)
RECURSIVE Before(_, _)
Before(s, c) ==
    IF s = "" \/ Head(s) = c THEN "" ELSE Head(s) \o Before(Tail(s), c)

\* the text after the first occurrence of character c ("" if none)
RECURSIVE After(_, _)
After(s, c) ==
    IF s = "" THEN "" ELSE IF Head(s) = c THEN Tail(s) ELSE After(Tail(s), c)

RECURSIVE Without(_, _)
Without(s, cs) ==
    IF s = "" THEN ""
    ELSE (IF Head(s) \in cs THEN "" ELSE Head(s)) \o Without(Tail(s), cs)

\* the fields of s between separators c
RECURSIVE Split(_, _)
Split(s, c) ==
    IF After(s, c) = "" THEN {Before(s, c)}
    ELSE {Before(s, c)} \cup Split(After(s, c), c)

\* the port names <p> of a record label
RECURSIVE Ports(_)
Ports(lbl) ==
    IF After(lbl, "<") = "" THEN {}
    ELSE {Before(After(lbl, "<"), ">")} \cup Ports(After(After(lbl, "<"), ">"))

ParamLabelPrefix == "{<mod>m|<in>i}|{"

IsParamNode(st) == st.stmt = "node" /\ StartsWith(st.label, ParamLabelPrefix)

\* the parameter name a parameter's node statement displays
LabelName(lbl) == Before(Drop(lbl, Len(ParamLabelPrefix)), "|")

\* node:port[:compass] or {node:port[:compass], ...}
Endpoints(text) ==
    {[node |-> Before(item, ":"), port |-> Before(After(item, ":"), ":")] :
        item \in Split(Without(text, {"{", "}", " "}), ",")}

Subgraphs(g) == {k \in 1..Len(g) : g[k].stmt = "subgraph"}

\* every statement of the graph, at the top level or inside a subgraph
Statements(g) ==
    {g[k] : k \in (1..Len(g)) \ Subgraphs(g)}
        \cup UNION {{g[k].body[j] : j \in 1..Len(g[k].body)} : k \in Subgraphs(g)}

NodeStatements(g) == {st \in Statements(g) : st.stmt = "node"}
EdgeStatements(g) == {st \in Statements(g) : st.stmt = "edge"}

\* places <<k, j>> of the parameter node statements
ParamNodePlaces(g) ==
    {<<k, j>> \in UNION {{k} \X (1..Len(g[k].body)) : k \in Subgraphs(g)} :
        IsParamNode(g[k].body[j])}

GraphReturned == result.ok /\ result.op \in {"dump", "to_gv"}
DumpFailed == result.op = "dump" /\ ~result.ok
DumpSucceeded == result = Succeeded("dump")

Byte(buf, offset) == buf[offset + 1]

(***************************************************************************)
(* C1: a decode that aborts with an error leaves every raw slot as it was  *)
(* when the decode started and has logged no section report.               *)
(***************************************************************************)
C1_AbortIsAtomic ==
    DumpFailed => (RawSlots(schema) = before /\ reports = <<>>)

(***************************************************************************)
(* C2: a buffer whose first four bytes are not F0 00 20 29 fails with the  *)
(* header error whatever its length, no raw slot is changed and no section *)
(* is reported.                                                            *)
(***************************************************************************)
C2_HeaderErrorFirst ==
    (result.op = "dump" /\ ~StartsWith(sysex, PATCH_HEADER))
        => /\ result = Failed("dump", HeaderError)
           /\ RawSlots(schema) = before
           /\ reports = <<>>

\* a corrupted header on a buffer of the wrong length, after an earlier
\* decode has populated raw slots
C2_Witness ==
    /\ result = Failed("dump", HeaderError)
    /\ Len(sysex) = PATCH_LEN + 1
    /\ sysex[1] = 241
    /\ before # RawSlots(PATCH_INFO)

(***************************************************************************)
(* C3: a buffer that has the header but not exactly 350 bytes fails with   *)
(* the length error, never a range error; no raw slot is written and no    *)
(* section is reported.                                                    *)
(***************************************************************************)
C3_LengthErrorBeforeDecode ==
    (result.op = "dump" /\ StartsWith(sysex, PATCH_HEADER) /\ Len(sysex) # PATCH_LEN)
        => /\ result = Failed("dump", LengthError)
           /\ RawSlots(schema) = before
           /\ reports = <<>>

\* 349 bytes, a good header and a byte no parameter accepts at offset 0x29
C3_Witness ==
    /\ result = Failed("dump", LengthError)
    /\ Len(sysex) = PATCH_LEN - 1
    /\ StartsWith(sysex, PATCH_HEADER)
    /\ Byte(sysex, 41) = 5

(***************************************************************************)
(* C4: a successful decode reports, section by section in schema order and *)
(* parameter by parameter in list order, (name, buffer[offset],            *)
(* format(buffer[offset])), and leaves raw = buffer[offset] in every       *)
(* parameter, whatever the slots held before.                              *)
(***************************************************************************)
C4_DecodePopulatesAndReports ==
    DumpSucceeded =>
        /\ Len(reports) = Len(schema.sections)
        /\ \A s \in 1..Len(schema.sections) :
            /\ reports[s].section = schema.sections[s].name
            /\ Len(reports[s].table) = Len(schema.sections[s].params)
            /\ \A i \in 1..Len(schema.sections[s].params) :
                /\ schema.sections[s].params[i].raw
                        = Byte(sysex, schema.sections[s].params[i].offset)
                /\ reports[s].table[i] =
                        <<"", schema.sections[s].params[i].name,
                          Byte(sysex, schema.sections[s].params[i].offset),
                          format(schema.sections[s].params[i],
                                 Byte(sysex, schema.sections[s].params[i].offset)).value>>

\* a successful decode over slots an earlier decode of another buffer filled
C4_Witness ==
    /\ DumpSucceeded
    /\ before # <<>>
    /\ \E s \in 1..Len(before) : \E i \in 1..Len(before[s]) :
        /\ before[s][i] # None
        /\ before[s][i] # schema.sections[s].params[i].raw

(***************************************************************************)
(* C5: the rendered graph has one subgraph per section and, in each        *)
(* section's subgraph, one record node statement per parameter, plus the   *)
(* two top-level edges, whether or not a decode has run.                   *)
(***************************************************************************)
C5_NodePerParameter ==
    GraphReturned =>
        /\ Cardinality(Subgraphs(gv)) = Len(schema.sections)
        /\ \A s \in 1..Len(schema.sections) :
            /\ gv[s].stmt = "subgraph"
            /\ Cardinality({j \in 1..Len(gv[s].body) : IsParamNode(gv[s].body[j])})
                    = Len(schema.sections[s].params)
        /\ SubSeq(gv, Len(schema.sections) + 1, Len(gv)) = TopLevelEdges

(***************************************************************************)
(* C6: for a Linear-map parameter with integer map endpoints, format of    *)
(* range_min is the format string applied to map_min and format of         *)
(* range_max is the format string applied to map_max, without an error.    *)
(***************************************************************************)
C6_MapBoundaryRoundTrip ==
    (/\ out.op = "format"
     /\ param.cls = "SysexInfoParamMap"
     /\ IsInt(param.map_min) /\ IsInt(param.map_max))
        => /\ out.raw = param.range_min
                => out.res = Return(PyStr(Percent(param.fmt_str, param.map_min)))
           /\ out.raw = param.range_max
                => out.res = Return(PyStr(Percent(param.fmt_str, param.map_max)))

(***************************************************************************)
(* C7: a Choice parameter with k labels has range_max - range_min = k - 1, *)
(* and the raw value its range gives to index i formats to label i.        *)
(***************************************************************************)
C7_ChoiceTotalAndCorrect ==
    param.cls = "SysexInfoParamChoice"
        => /\ param.range_max - param.range_min = Len(param.choices) - 1
           /\ (out.op = "format" /\ out.raw \in param.range_min..param.range_max)
                => out.res = Return(PyStr(param.choices[out.raw - param.range_min + 1]))

(***************************************************************************)
(* C8: the rendered graph never holds two parameter node statements with   *)
(* the same identifier for two different display names.                    *)
(***************************************************************************)
C8_NoSilentCollision ==
    GraphReturned =>
        \A p \in ParamNodePlaces(gv), q \in ParamNodePlaces(gv) :
            gv[p[1]].body[p[2]].id = gv[q[1]].body[q[2]].id
                => LabelName(gv[p[1]].body[p[2]].label)
                        = LabelName(gv[q[1]].body[q[2]].label)

(***************************************************************************)
(* C9: decoding a well-formed buffer with byte 0x2A = 50 reports raw 50    *)
(* and the value "50%" for Portamento Rate.                                *)
(***************************************************************************)
C9_PortamentoFiftyPercent ==
    (DumpSucceeded /\ Byte(sysex, 42) = 50)
        => reports[1].table[2] = <<"", "Portamento Rate", 50, PyStr("50%")>>

\* C9 as amended: the raw range of Portamento Rate is 0..127, so raw 50 is
\* reported as int(50 * 100 / 127) = 39, "39%"
C9_PortamentoThirtyNinePercent ==
    (DumpSucceeded /\ Byte(sysex, 42) = 50)
        => /\ reports[1].section = "Voice"
           /\ reports[1].table[2] = <<"", "Portamento Rate", 50, PyStr("39%")>>

C9_Witness ==
    /\ DumpSucceeded
    /\ Byte(sysex, 42) = 50
    /\ schema.sections[1].params[2].raw = 50

(***************************************************************************)
(* C10: in the graph of PATCH_INFO every endpoint of every edge names a    *)
(* node that has a node statement in the output, and a port that this      *)
(* node's record label declares.                                           *)
(***************************************************************************)
C10_NoDanglingEdge ==
    GraphReturned =>
        \A e \in EdgeStatements(gv) :
            \A ep \in Endpoints(e.from) \cup Endpoints(e.to) :
                \E n \in NodeStatements(gv) :
                    n.id = ep.node /\ ep.port \in Ports(n.label)

\* a graph rendered after a successful decode, with its six edges
C10_Witness ==
    /\ DumpSucceeded
    /\ Cardinality(EdgeStatements(gv)) = Len(TopLevelEdges) + Len(MixerEdges)
    /\ \E e \in EdgeStatements(gv) : Cardinality(Endpoints(e.to)) = 2

====
